---- MODULE Spec2Model ----
(***************************************************************************)
(* State-machine model of the HTM learning region of cami-mind:            *)
(*   layers/basic_cell.py       BasicTMCell (segments, permanences)        *)
(*   layers/temporal_memory.py  TemporalMemory (compute, _findWinnerCells) *)
(*   layers/spatial_pooler.py   SpatialPooler (__init__, compute)          *)
(*                                                                         *)
(* Permanences are reals in the source.  They are modelled on a grid:      *)
(* the real p is the integer p * PermScale, so 1.0 is PermScale.           *)
(* Segment lists are 1-based sequences here (0-based lists in the source); *)
(* cells are flat indices 0 .. columnDim*cellsPerColumn - 1 as in source.  *)
(***************************************************************************)
EXTENDS Integers, Sequences, FiniteSets, TLC

\* Grid resolution of a permanence: 1.0 is PermScale grid steps.
PermScale == 4
\* Number of TemporalMemory.compute calls explored from a fresh layer.
MaxCycles == 4
\* Cap of the model on a cell's segment list (the source has none).
MaxSegs == 3

VARIABLES
    cfg,          \* constructor arguments of the TemporalMemory layer
    segs,         \* segs[c]: BasicTMCell._segmentPermanences of cell c
    aseg,         \* aseg[c]: BasicTMCell._activeSegments of cell c
    mseg,         \* mseg[c]: BasicTMCell._matchingSegments of cell c
    activeCells,  \* TemporalMemory._activeCells
    winnerCells,  \* TemporalMemory._winnerCells (a list, may repeat a cell)
    cycle,        \* number of compute calls made so far
    onlyCol0,     \* every call so far was compute([0], learn=True)
    last,         \* what the most recent compute call read, did and returned
    call,         \* the most recent direct call of a BasicTMCell method
    seqABC,       \* the three column sets presented cyclically (SpecSeq)
    quiet,        \* number of latest consecutive cycles without a bursting column
    converged,    \* three consecutive cycles without a bursting column were seen
    spCfg,        \* constructor arguments of the SpatialPooler
    permanences,  \* SpatialPooler._permanences[column][bit]
    potentials,   \* SpatialPooler._potentials[column][bit]
    spLast,       \* the most recent SpatialPooler.compute call and its result
    spCalls,      \* number of SpatialPooler.compute calls made so far
    twin,         \* a second TemporalMemory layer built with the same arguments
    rng           \* the generator of the numpy module (np.random), shared by all

tmVars == <<cfg, segs, aseg, mseg, activeCells, winnerCells, cycle, onlyCol0, last>>

-----------------------------------------------------------------------------
(* Generic helpers *)

Min(a, b) == IF a < b THEN a ELSE b

RECURSIVE SortedSeq(_)
\* np.flatnonzero(...).tolist(): the members of S in ascending order
SortedSeq(S) ==
    IF S = {} THEN <<>>
    ELSE LET m == CHOOSE x \in S : \A y \in S : x <= y
         IN  <<m>> \o SortedSeq(S \ {m})

SeqToSet(s) == {s[i] : i \in 1..Len(s)}

RECURSIVE MaxOf(_)
\* Python max() / np.max of a non-empty sequence of integers
MaxOf(s) ==
    IF Len(s) = 1 THEN s[1]
    ELSE LET m == MaxOf(Tail(s)) IN IF s[1] >= m THEN s[1] ELSE m

RECURSIVE MinOf(_)
MinOf(s) ==
    IF Len(s) = 1 THEN s[1]
    ELSE LET m == MinOf(Tail(s)) IN IF s[1] <= m THEN s[1] ELSE m

\* np.argmax: the first position (1-based here) holding the maximum
ArgMax(s) == CHOOSE i \in 1..Len(s) :
                 /\ s[i] = MaxOf(s)
                 /\ \A j \in 1..(i-1) : s[j] # MaxOf(s)

\* np.argmin: the first position (1-based here) holding the minimum
ArgMin(s) == CHOOSE i \in 1..Len(s) :
                 /\ s[i] = MinOf(s)
                 /\ \A j \in 1..(i-1) : s[j] # MinOf(s)

\* np.clip(x, 0.0, 1.0) on the permanence grid
Clip(x) == IF x < 0 THEN 0 ELSE IF x > PermScale THEN PermScale ELSE x

\* Storing a float of [0,1] into an np.int8 array truncates it: 1.0 -> 1,
\* anything below 1.0 -> 0.  The result is in whole units.
Int8(x) == x \div PermScale

-----------------------------------------------------------------------------
(* Layer geometry *)

NumCells == cfg.columnDim * cfg.cellsPerColumn
Cells == 0..(NumCells - 1)
Columns == 0..(cfg.columnDim - 1)
ColOf(c) == c \div cfg.cellsPerColumn
CellsOf(col) == {c \in Cells : ColOf(c) = col}
FlatIndex(col, j) == col * cfg.cellsPerColumn + j

-----------------------------------------------------------------------------
(* BasicTMCell: one cell's segment list.  ss is _segmentPermanences, a      *)
(* sequence of segments; a segment maps every cell of the region to a       *)
(* permanence.                                                              *)

\* number of entries of seg that are >= minPermanence and whose target is active
ConnectedOverlap(seg, active) ==
    Cardinality({t \in Cells : t \in active /\ seg[t] >= cfg.minPermanence})

\* number of entries of seg that are > 0 and whose target is active
PotentialOverlap(seg, active) ==
    Cardinality({t \in Cells : t \in active /\ seg[t] > 0})

\* Mutant: line 42 counting every synapse (> 0) instead of the connected
\* ones (>= minPermanence)
ActivateSegmentsPotential(ss, oldA, oldM, active) ==
    IF Len(ss) = 0 THEN [a |-> oldA, m |-> oldM]
    ELSE [a |-> {s \in 1..Len(ss) :
                    PotentialOverlap(ss[s], active) >= cfg.activationThreshold},
          m |-> {s \in 1..Len(ss) :
                    PotentialOverlap(ss[s], active) >= cfg.minActive}]

\* activateSegments: a cell without segments keeps its old (empty) lists
ActivateSegments(ss, oldA, oldM, active) ==
    IF Len(ss) = 0 THEN [a |-> oldA, m |-> oldM]
    ELSE [a |-> {s \in 1..Len(ss) :
                    ConnectedOverlap(ss[s], active) >= cfg.activationThreshold},
          m |-> {s \in 1..Len(ss) :
                    PotentialOverlap(ss[s], active) >= cfg.minActive}]

\* The target sets np.random.shuffle can put in the first `count` places of
\* the list pw (pw may hold a cell more than once).
ShuffleTargets(pw, count) ==
    {{pw[i] : i \in P} : P \in {Q \in SUBSET (1..Len(pw)) : Cardinality(Q) = count}}

NewSegment(targets, initialPermanence) ==
    [t \in Cells |-> IF t \in targets THEN initialPermanence ELSE 0]

\* Mutant: line 127 missing, a segment is appended even when there is no
\* synapse to put on it
CreateSegmentAlways(ss, maxNewSynapses, prevWinnerCells, initialPermanence) ==
    {Append(ss, NewSegment(T, initialPermanence)) :
        T \in ShuffleTargets(prevWinnerCells,
                             Min(maxNewSynapses, Len(prevWinnerCells)))}

\* Mutant: a synapse onto every previous winner cell, whatever
\* maxNewSynapses is
CreateSegmentAll(ss, maxNewSynapses, prevWinnerCells, initialPermanence) ==
    IF Len(prevWinnerCells) > 0
    THEN {Append(ss, NewSegment(SeqToSet(prevWinnerCells), initialPermanence))}
    ELSE {ss}

\* createSegment: the possible segment lists after the call
CreateSegment(ss, maxNewSynapses, prevWinnerCells, initialPermanence) ==
    LET newSynapsesCount == Min(maxNewSynapses, Len(prevWinnerCells))
    IN  IF newSynapsesCount > 0
        THEN {Append(ss, NewSegment(T, initialPermanence)) :
                 T \in ShuffleTargets(prevWinnerCells, newSynapsesCount)}
        ELSE {ss}

\* adaptSegment, lines 60-62: the int8 update array, in whole units
AdaptUpdates(seg, previousCells, permanenceInc, permanenceDec) ==
    [t \in Cells |->
        (IF t \in previousCells THEN Int8(permanenceInc) ELSE Int8(permanenceDec))
        * (IF seg[t] > 0 THEN 1 ELSE 0)]

\* Mutant: line 64 without np.clip
AdaptReinforceNoClip(seg, updates) ==
    [t \in Cells |-> seg[t] + updates[t] * PermScale]

\* adaptSegment, line 64
AdaptReinforce(seg, updates) ==
    [t \in Cells |-> Clip(seg[t] + updates[t] * PermScale)]

\* adaptSegment: the possible segment lists after the call.  The growth
\* step draws from entries with a positive update and permanence 0 after
\* the reinforcement.
AdaptSegment(ss, segment, previousCells, maxNewSynapses, initialPermanence, permanenceInc, permanenceDec) ==
    LET updates == AdaptUpdates(ss[segment], previousCells, permanenceInc, permanenceDec)
        reinforced == AdaptReinforce(ss[segment], updates)
        activeSynapsesCount == Cardinality({t \in Cells : updates[t] > 0})
        newSynapsesCount == maxNewSynapses - activeSynapsesCount
        eligible == {t \in Cells : updates[t] > 0 /\ reinforced[t] = 0}
    IN  IF newSynapsesCount > 0 /\ eligible # {}
        THEN {[ss EXCEPT ![segment] =
                  [t \in Cells |-> IF t \in G THEN initialPermanence ELSE reinforced[t]]] :
                 G \in {H \in SUBSET eligible :
                           Cardinality(H) = Min(newSynapsesCount, Cardinality(eligible))}}
        ELSE {[ss EXCEPT ![segment] = reinforced]}

\* addSynapses, line 109: multiplying the (columnDim, cellsPerColumn) segment
\* by the flat (columnDim*cellsPerColumn) vector broadcasts only when one of
\* the two dimensions is 1; otherwise numpy raises ValueError.
AddSynapsesRaises == cfg.columnDim # 1 /\ cfg.cellsPerColumn # 1

\* addSynapses, line 109: the count the product yields when it broadcasts
AddSynapsesCount(seg, previousCells) ==
    IF cfg.columnDim = 1
    THEN Cardinality({t \in Cells : seg[t] > 0 /\ t \in previousCells})
    ELSE Cardinality({t \in Cells : seg[t] > 0})
         * Cardinality({t \in Cells : t \in previousCells})

\* addSynapses, line 112: `self._segmentPermanences == 0` compares the Python
\* list with 0 and is False, so no entry is ever eligible.
AddSynapsesEligible(seg, previousCells) == {t \in Cells : t \in previousCells /\ FALSE}

\* addSynapses: [seg, err]
AddSynapses(seg, previousCells, maxNewSynapses, initialPermanence) ==
    IF AddSynapsesRaises THEN [seg |-> seg, err |-> TRUE]
    ELSE LET newSynapseCount == maxNewSynapses - AddSynapsesCount(seg, previousCells)
             eligible == AddSynapsesEligible(seg, previousCells)
         IN  IF newSynapseCount > 0 /\ eligible # {}
             THEN [seg |-> [t \in Cells |-> IF t \in eligible THEN initialPermanence
                                                              ELSE seg[t]],
                   err |-> FALSE]
             ELSE [seg |-> seg, err |-> FALSE]

\* adaptActiveSegments, lines 89-95: the reinforcement of one active segment
ActiveReinforce(seg, prevActiveCells, permanenceInc, permanenceDec) ==
    [t \in Cells |->
        IF seg[t] > 0
        THEN Clip(seg[t] + (IF t \in prevActiveCells THEN permanenceInc
                                                     ELSE 0 - permanenceDec))
        ELSE Clip(seg[t])]

RECURSIVE AdaptActiveLoop(_, _, _, _, _, _, _, _, _)
\* adaptActiveSegments, lines 92-97: the loop over the active segments in
\* ascending order; it stops at the first addSynapses that raises.
AdaptActiveLoop(ss, order, k, prevActiveCells, maxNewSynapses, prevWinnerCells, initialPermanence, permanenceInc, permanenceDec) ==
    IF k > Len(order) THEN [segs |-> ss, err |-> FALSE]
    ELSE LET s == order[k]
             r == ActiveReinforce(ss[s], prevActiveCells, permanenceInc, permanenceDec)
             g == AddSynapses(r, SeqToSet(prevWinnerCells), maxNewSynapses,
                              initialPermanence)
             ss2 == [ss EXCEPT ![s] = g.seg]
         IN  IF g.err THEN [segs |-> ss2, err |-> TRUE]
             ELSE AdaptActiveLoop(ss2, order, k + 1, prevActiveCells, maxNewSynapses,
                                  prevWinnerCells, initialPermanence, permanenceInc,
                                  permanenceDec)

\* adaptActiveSegments: [segs, err]
AdaptActiveSegments(ss, active, prevActiveCells, maxNewSynapses, prevWinnerCells, initialPermanence, permanenceInc, permanenceDec) ==
    AdaptActiveLoop(ss, SortedSeq(active), 1, prevActiveCells, maxNewSynapses,
                    prevWinnerCells, initialPermanence, permanenceInc, permanenceDec)

\* Mutant: the sign convention of the other cell variants (adding the
\* update instead of subtracting it)
PunishAdds(ss, matching, prevActiveCells, permanenceDec) ==
    [s \in 1..Len(ss) |->
        IF s \in matching
        THEN [t \in Cells |->
                 Clip(ss[s][t] + (IF t \in prevActiveCells THEN permanenceDec ELSE 0))]
        ELSE ss[s]]

\* punishMatchingSegments
PunishMatchingSegments(ss, matching, prevActiveCells, permanenceDec) ==
    [s \in 1..Len(ss) |->
        IF s \in matching
        THEN [t \in Cells |->
                 Clip(ss[s][t] - (IF t \in prevActiveCells THEN permanenceDec ELSE 0))]
        ELSE ss[s]]

\* getActivePotentials: per segment, the entries that are non-zero and whose
\* target is active; [0] for a cell without segments
GetActivePotentials(ss, active) ==
    IF Len(ss) < 1 THEN <<0>>
    ELSE [s \in 1..Len(ss) |->
             Cardinality({t \in Cells : t \in active /\ ss[s][t] # 0})]

GetNumberOfSegments(ss) == Len(ss)

\* predictive() of cell c of the layer tm
Predictive(tm, c) == tm.aseg[c] # {}

\* matching() of cell c of the layer tm
Matching(tm, c) == tm.mseg[c] # {}

-----------------------------------------------------------------------------
(* TemporalMemory.  The operators of compute take the layer they work on   *)
(* as the record tm of its fields.                                         *)

\* the layer held in the variables
Self ==
    [segs |-> segs, aseg |-> aseg, mseg |-> mseg,
     activeCells |-> activeCells, winnerCells |-> winnerCells]

\* The constructor arguments of one layer (tm_cell is BasicTMCell).
TMConfig(C, K, maxNew, init, minPerm, inc, dec) ==
    [columnDim |-> C, cellsPerColumn |-> K,
     maxSegmentsPerCell |-> 1, maxSynapsesPerSegment |-> 1,
     minActive |-> 1, activationThreshold |-> 1,
     minPermanence |-> minPerm, initialPermanence |-> init,
     maxNewSynapses |-> maxNew, permanenceInc |-> inc, permanenceDec |-> dec]

Half == PermScale \div 2
Quarter == PermScale \div 4

\* The layers explored: one column of four cells, a square layer, a layer of
\* one-cell columns, a one-cell layer; fractional and whole (1.0) increments.
Configs ==
    { TMConfig(1, 4, 2, Half, Half, Quarter, Quarter),
      TMConfig(2, 2, 1, Half, Half, Quarter, Quarter),
      TMConfig(2, 2, 2, Quarter, Half, PermScale, Half),
      TMConfig(3, 1, 1, Half, Half, Quarter, Half),
      TMConfig(2, 1, 2, Quarter, Half, Half, PermScale),
      TMConfig(1, 1, 1, Half, Half, Quarter, Quarter) }

\* compute, line 99: the cells whose predictive() is true
PredictiveStates(tm) == {c \in Cells : Predictive(tm, c)}

\* compute, lines 100-102: cells of the active columns that are predictive
PredictedActive(tm, cols) == {c \in Cells : ColOf(c) \in cols /\ Predictive(tm, c)}

\* compute, line 105: activeCellsPerColumn
HasPredictedActive(col, pa) == \E c \in pa : ColOf(c) = col

\* compute, lines 105-106: np.where(activeCellsPerColumn != columns[0])[0].
\* columns[0] is the row of column 0 (length cellsPerColumn, all ones iff
\* column 0 is active), compared elementwise with the per-column vector
\* (length columnDim).  The two broadcast when the lengths agree or one of
\* them is 1; otherwise the comparison raises in numpy >= 1.25 and, before
\* that, yields the scalar True, of which np.where gives index 0.
BurstingOutcomes(cols, pa) ==
    IF cfg.columnDim = cfg.cellsPerColumn \/ cfg.cellsPerColumn = 1
    THEN {[raise |-> FALSE,
           idx |-> {col \in Columns : HasPredictedActive(col, pa) # (0 \in cols)}]}
    ELSE IF cfg.columnDim = 1
    THEN {[raise |-> FALSE,
           idx |-> {j \in 0..(cfg.cellsPerColumn - 1) :
                       HasPredictedActive(0, pa) # (0 \in cols)}]}
    ELSE {[raise |-> TRUE, idx |-> {}], [raise |-> FALSE, idx |-> {0}]}

\* Mutant: line 107 overwriting the predicted-active cells instead of adding
\* the bursting columns to them
ActiveCellsOfBurstOnly(pa, burst) == {c \in Cells : ColOf(c) \in burst}

\* compute, line 107-108: predicted-active cells plus every cell of a
\* bursting column
ActiveCellsOf(pa, burst) == pa \cup {c \in Cells : ColOf(c) \in burst}

\* Mutant: the [0] of a cell without segments taken for a real score: the
\* best-match branch is entered whenever the best score is >= 0, and
\* adaptSegment is skipped where the segment is missing
FindWinnerColumnNoSentinel(col, st, act, prevWinnerCells, learn) ==
    LET K == cfg.cellsPerColumn
        cellActivePotentials ==
            [j \in 1..K |-> GetActivePotentials(st.segs[FlatIndex(col, j - 1)], act)]
        maxActivePotentials == [j \in 1..K |-> MaxOf(cellActivePotentials[j])]
        j == ArgMax(maxActivePotentials)
        cell == FlatIndex(col, j - 1)
        segment == ArgMax(cellActivePotentials[j])
        after == IF learn /\ segment <= Len(st.segs[cell])
                 THEN AdaptSegment(st.segs[cell], segment, SeqToSet(prevWinnerCells),
                                   cfg.maxNewSynapses, cfg.initialPermanence,
                                   cfg.permanenceInc, cfg.permanenceDec)
                 ELSE {st.segs[cell]}
    IN  {[segs |-> [st.segs EXCEPT ![cell] = ns],
          winners |-> Append(st.winners, cell),
          picks |-> Append(st.picks,
                           [cell |-> cell, branch |-> "best",
                            nsegs |-> Len(st.segs[cell]),
                            segment |-> IF learn THEN segment ELSE 0])] : ns \in after}

\* Mutant: prevWinnerCells not held apart from self._winnerCells: the
\* learning of a column grows to the winners appended so far in this call
FindWinnerColumnAliased(col, st, act, prevWinnerCells, learn) ==
    LET K == cfg.cellsPerColumn
        cellActivePotentials ==
            [j \in 1..K |-> GetActivePotentials(st.segs[FlatIndex(col, j - 1)], act)]
        maxActivePotentials == [j \in 1..K |-> MaxOf(cellActivePotentials[j])]
        best == MaxOf(maxActivePotentials) > 0
        cell == IF best THEN FlatIndex(col, ArgMax(maxActivePotentials) - 1)
                ELSE FlatIndex(col, ArgMin([j \in 1..K |->
                         GetNumberOfSegments(st.segs[FlatIndex(col, j - 1)])]) - 1)
        segment == ArgMax(cellActivePotentials[ArgMax(maxActivePotentials)])
        after == IF ~learn THEN {st.segs[cell]}
                 ELSE IF best
                 THEN AdaptSegment(st.segs[cell], segment, SeqToSet(st.winners),
                                   cfg.maxNewSynapses, cfg.initialPermanence,
                                   cfg.permanenceInc, cfg.permanenceDec)
                 ELSE CreateSegment(st.segs[cell], cfg.maxNewSynapses, st.winners,
                                    cfg.initialPermanence)
    IN  {[segs |-> [st.segs EXCEPT ![cell] = ns],
          winners |-> Append(st.winners, cell),
          picks |-> Append(st.picks,
                           [cell |-> cell, branch |-> IF best THEN "best" ELSE "fewest",
                            nsegs |-> Len(st.segs[cell]),
                            segment |-> IF learn /\ best THEN segment ELSE 0])] :
            ns \in after}

\* _findWinnerCells, lines 146-174: one bursting column.  st is
\* [segs, winners, picks]; the result is the set of possible st.  picks
\* lists, per column visited, the winner cell, the branch that chose it,
\* the number of segments the cell had and the segment handed to
\* adaptSegment (0 when adaptSegment is not called).
FindWinnerColumn(col, st, act, prevWinnerCells, learn) ==
    LET K == cfg.cellsPerColumn
        cellActivePotentials ==
            [j \in 1..K |-> GetActivePotentials(st.segs[FlatIndex(col, j - 1)], act)]
        maxActivePotentials == [j \in 1..K |-> MaxOf(cellActivePotentials[j])]
    IN  IF MaxOf(maxActivePotentials) > 0
        THEN LET j == ArgMax(maxActivePotentials)
                 cell == FlatIndex(col, j - 1)
                 segment == ArgMax(cellActivePotentials[j])
                 after == IF learn
                          THEN AdaptSegment(st.segs[cell], segment,
                                            SeqToSet(prevWinnerCells),
                                            cfg.maxNewSynapses, cfg.initialPermanence,
                                            cfg.permanenceInc, cfg.permanenceDec)
                          ELSE {st.segs[cell]}
             IN  {[segs |-> [st.segs EXCEPT ![cell] = ns],
                   winners |-> Append(st.winners, cell),
                   picks |-> Append(st.picks,
                                    [cell |-> cell, branch |-> "best",
                                     nsegs |-> Len(st.segs[cell]),
                                     segment |-> IF learn THEN segment ELSE 0])] :
                     ns \in after}
        ELSE LET segmentCounts ==
                     [j \in 1..K |-> GetNumberOfSegments(st.segs[FlatIndex(col, j - 1)])]
                 cell == FlatIndex(col, ArgMin(segmentCounts) - 1)
                 after == IF learn
                          THEN CreateSegment(st.segs[cell], cfg.maxNewSynapses,
                                             prevWinnerCells, cfg.initialPermanence)
                          ELSE {st.segs[cell]}
             IN  {[segs |-> [st.segs EXCEPT ![cell] = ns],
                   winners |-> Append(st.winners, cell),
                   picks |-> Append(st.picks,
                                    [cell |-> cell, branch |-> "fewest",
                                     nsegs |-> Len(st.segs[cell]), segment |-> 0])] :
                     ns \in after}

RECURSIVE FindWinnerCellsLearning(_, _, _, _, _, _)
\* Mutant: the loop learning whatever the learn flag says
FindWinnerCellsLearning(burst, k, st, act, prevWinnerCells, learn) ==
    IF k > Len(burst) THEN {st}
    ELSE UNION {FindWinnerCellsLearning(burst, k + 1, st2, act, prevWinnerCells, learn) :
                   st2 \in FindWinnerColumn(burst[k], st, act, prevWinnerCells, TRUE)}

RECURSIVE FindWinnerCells(_, _, _, _, _, _)
\* _findWinnerCells: the loop over the bursting columns, in ascending order
FindWinnerCells(burst, k, st, act, prevWinnerCells, learn) ==
    IF k > Len(burst) THEN {st}
    ELSE UNION {FindWinnerCells(burst, k + 1, st2, act, prevWinnerCells, learn) :
                   st2 \in FindWinnerColumn(burst[k], st, act, prevWinnerCells, learn)}

RECURSIVE LearnPredicted(_, _, _, _, _, _)
\* compute, lines 112-118: adaptActiveSegments on each predicted-active cell,
\* in ascending order; an exception ends the loop.  [segs, err]
LearnPredicted(tm, sf, order, k, prevActiveCells, prevWinnerCells) ==
    IF k > Len(order) THEN [segs |-> sf, err |-> FALSE]
    ELSE LET c == order[k]
             r == AdaptActiveSegments(sf[c], tm.aseg[c], prevActiveCells,
                                      cfg.maxNewSynapses, prevWinnerCells,
                                      cfg.initialPermanence, cfg.permanenceInc,
                                      cfg.permanenceDec)
             sf2 == [sf EXCEPT ![c] = r.segs]
         IN  IF r.err THEN [segs |-> sf2, err |-> TRUE]
             ELSE LearnPredicted(tm, sf2, order, k + 1, prevActiveCells, prevWinnerCells)

\* compute, lines 120-123: predictive cells of columns that are not active
InactivePredicted(tm, cols) == {c \in Cells : ColOf(c) \notin cols /\ Predictive(tm, c)}

\* compute, lines 120-123
PunishInactive(tm, sf, cols, prevActiveCells) ==
    [c \in Cells |->
        IF c \in InactivePredicted(tm, cols)
        THEN PunishMatchingSegments(sf[c], tm.mseg[c], prevActiveCells, cfg.permanenceDec)
        ELSE sf[c]]

\* The state an exception at lines 106-107 leaves: only _winnerCells was
\* assigned (line 103).
RaisedEarly(tm, pa, burst, kind) ==
    [segs |-> tm.segs, aseg |-> tm.aseg, mseg |-> tm.mseg, activeCells |-> tm.activeCells,
     winnerCells |-> SortedSeq(pa), outcome |-> kind, predActive |-> pa,
     bursting |-> burst, predicted |-> {}, picks |-> <<>>]

\* compute, lines 111-132, after the winners are found
LearnAndActivate(tm, cols, learn, pa, burst, act, fw, prevActiveCells, prevWinnerCells) ==
    LET lp == IF learn
              THEN LearnPredicted(tm, fw.segs, SortedSeq(pa), 1, prevActiveCells,
                                  prevWinnerCells)
              ELSE [segs |-> fw.segs, err |-> FALSE]
    IN  IF lp.err
        THEN [segs |-> lp.segs, aseg |-> tm.aseg, mseg |-> tm.mseg, activeCells |-> act,
              winnerCells |-> fw.winners, outcome |-> "ValueError",
              predActive |-> pa, bursting |-> burst, predicted |-> {},
              picks |-> fw.picks]
        ELSE LET final == IF learn THEN PunishInactive(tm, lp.segs, cols, prevActiveCells)
                                   ELSE lp.segs
                 seg2 == [c \in Cells |->
                             ActivateSegments(final[c], tm.aseg[c], tm.mseg[c], act)]
             IN  [segs |-> final,
                  aseg |-> [c \in Cells |-> seg2[c].a],
                  mseg |-> [c \in Cells |-> seg2[c].m],
                  activeCells |-> act, winnerCells |-> fw.winners,
                  outcome |-> "ok", predActive |-> pa, bursting |-> burst,
                  predicted |-> {c \in Cells : seg2[c].a # {}},
                  picks |-> fw.picks]

\* compute(activeColumns, learn) on the layer tm: every state the call can
\* leave
ComputeResults(tm, cols, learn) ==
    LET prevActiveCells == tm.activeCells
        prevWinnerCells == tm.winnerCells
        pa == PredictedActive(tm, cols)
    IN  UNION {
          IF b.raise THEN {RaisedEarly(tm, pa, b.idx, "ValueError")}
          ELSE IF \E i \in b.idx : i >= cfg.columnDim
          THEN {RaisedEarly(tm, pa, b.idx, "IndexError")}
          ELSE LET act == ActiveCellsOf(pa, b.idx)
               IN  {LearnAndActivate(tm, cols, learn, pa, b.idx, act, fw,
                                     prevActiveCells, prevWinnerCells) :
                       fw \in FindWinnerCells(SortedSeq(b.idx), 1,
                                              [segs |-> tm.segs, winners |-> SortedSeq(pa),
                                               picks |-> <<>>],
                                              act, prevWinnerCells, learn)}
          : b \in BurstingOutcomes(cols, pa)}

TMInit ==
    /\ cfg \in Configs
    /\ segs = [c \in Cells |-> <<>>]
    /\ aseg = [c \in Cells |-> {}]
    /\ mseg = [c \in Cells |-> {}]
    /\ activeCells = {}
    /\ winnerCells = <<>>
    /\ cycle = 0
    /\ onlyCol0 = TRUE
    /\ last = [cols |-> {}, learn |-> FALSE, outcome |-> "none", predActive |-> {},
               bursting |-> {}, predicted |-> {}, prevActive |-> {},
               prevWinners |-> <<>>, prevPredictive |-> {}, picks |-> <<>>]

\* One compute call that ends the way `r` says.
Commit(cols, learn, r) ==
    /\ \A c \in Cells : Len(r.segs[c]) <= MaxSegs
    /\ segs' = r.segs
    /\ aseg' = r.aseg
    /\ mseg' = r.mseg
    /\ activeCells' = r.activeCells
    /\ winnerCells' = r.winnerCells
    /\ cycle' = cycle + 1
    /\ onlyCol0' = (onlyCol0 /\ cols = {0} /\ learn)
    /\ last' = [cols |-> cols, learn |-> learn, outcome |-> r.outcome,
                predActive |-> r.predActive, bursting |-> r.bursting,
                predicted |-> r.predicted, prevActive |-> activeCells,
                prevWinners |-> winnerCells, prevPredictive |-> PredictiveStates(Self),
                picks |-> r.picks]
    /\ UNCHANGED cfg

\* compute returns (activeCells, predictedCells)
ComputeReturns(cols, learn) ==
    /\ cycle < MaxCycles
    /\ \E r \in ComputeResults(Self, cols, learn) :
           r.outcome = "ok" /\ Commit(cols, learn, r)

\* compute raises part-way
ComputeRaises(cols, learn) ==
    /\ cycle < MaxCycles
    /\ \E r \in ComputeResults(Self, cols, learn) :
           r.outcome # "ok" /\ Commit(cols, learn, r)

NoCall == [op |-> "none"]

seqVars == <<seqABC, quiet, converged>>

spVars == <<spCfg, permanences, potentials, spLast, spCalls>>

twinVars == <<twin, rng>>

vars == <<tmVars, call, seqVars, spVars, twinVars>>

\* no second layer exists and the generator is not followed
NoTwin == twin = [n |-> 0] /\ rng = [pos |-> 0]

NoSequence == seqABC = <<>> /\ quiet = 0 /\ converged = FALSE

\* no SpatialPooler has been constructed
NoPooler ==
    /\ spCfg = [inputDim |-> 0, columnDim |-> 0]
    /\ permanences = <<>>
    /\ potentials = <<>>
    /\ spLast = [op |-> "none"]
    /\ spCalls = 0

Init == TMInit /\ call = NoCall /\ NoSequence /\ NoPooler /\ NoTwin

Next ==
    \E cols \in SUBSET Columns, learn \in BOOLEAN :
        \/ ComputeReturns(cols, learn) /\ UNCHANGED <<call, seqVars, spVars, twinVars>>
        \/ ComputeRaises(cols, learn) /\ UNCHANGED <<call, seqVars, spVars, twinVars>>

\* A TemporalMemory layer driven by compute calls
Spec == Init /\ [][Next]_vars

-----------------------------------------------------------------------------
(* Construction of a TemporalMemory layer, followed by compute calls        *)

\* no layer object exists
NoConfig == TMConfig(0, 0, 0, 0, 0, 0, 0)

\* The constructor arguments tried: those of Configs, and the same with a
\* dimension that is zero or negative (tm_cell is BasicTMCell).
NewArgs ==
    Configs
    \cup {[a EXCEPT !.columnDim = d] : a \in Configs, d \in {-1, 0}}
    \cup {[a EXCEPT !.cellsPerColumn = d] : a \in Configs, d \in {-1, 0}}
    \cup {[a EXCEPT !.columnDim = 0, !.cellsPerColumn = 0] : a \in Configs}

\* __init__, lines 36-40.  For an integer columnDim <= 0 the first test
\* goes on to evaluate len(columnDim), which raises TypeError (an int has
\* no len) before the ValueError of line 37 can be raised.
NewOutcome(a) ==
    IF a.columnDim <= 0 THEN "TypeError"
    ELSE IF a.cellsPerColumn <= 0 THEN "ValueError"
    ELSE "none"

NewInit ==
    /\ cfg = NoConfig
    /\ segs = <<>> /\ aseg = <<>> /\ mseg = <<>>
    /\ activeCells = {} /\ winnerCells = <<>>
    /\ cycle = 0 /\ onlyCol0 = TRUE
    /\ last = [cols |-> {}, learn |-> FALSE, outcome |-> "none", predActive |-> {},
               bursting |-> {}, predicted |-> {}, prevActive |-> {},
               prevWinners |-> <<>>, prevPredictive |-> {}, picks |-> <<>>]
    /\ call = NoCall /\ NoSequence /\ NoPooler /\ NoTwin

\* TemporalMemory(BasicTMCell, ...) returning a layer
NewReturns(a) ==
    /\ call = NoCall
    /\ NewOutcome(a) = "none"
    /\ cfg' = a
    /\ segs' = [c \in 0..(a.columnDim * a.cellsPerColumn - 1) |-> <<>>]
    /\ aseg' = [c \in 0..(a.columnDim * a.cellsPerColumn - 1) |-> {}]
    /\ mseg' = [c \in 0..(a.columnDim * a.cellsPerColumn - 1) |-> {}]
    /\ activeCells' = {} /\ winnerCells' = <<>>
    /\ call' = [op |-> "TemporalMemory", args |-> a, error |-> "none"]
    /\ UNCHANGED <<cycle, onlyCol0, last, seqVars, spVars, twinVars>>

\* TemporalMemory(BasicTMCell, ...) raising: no layer comes to exist
NewRaises(a) ==
    /\ call = NoCall
    /\ NewOutcome(a) # "none"
    /\ call' = [op |-> "TemporalMemory", args |-> a, error |-> NewOutcome(a)]
    /\ UNCHANGED <<tmVars, seqVars, spVars, twinVars>>

\* a layer was constructed
Built == call # NoCall /\ call.error = "none"

NewNext ==
    \/ \E a \in NewArgs : NewReturns(a)
    \/ \E a \in NewArgs : NewRaises(a)
    \/ /\ Built
       /\ \E cols \in SUBSET Columns, learn \in BOOLEAN :
              /\ ComputeReturns(cols, learn)
              /\ UNCHANGED <<call, seqVars, spVars, twinVars>>
    \/ /\ Built
       /\ \E cols \in SUBSET Columns, learn \in BOOLEAN :
              /\ ComputeRaises(cols, learn)
              /\ UNCHANGED <<call, seqVars, spVars, twinVars>>

\* A TemporalMemory layer from its construction on
SpecNew == NewInit /\ [][NewNext]_vars

-----------------------------------------------------------------------------
(* A BasicTMCell driven directly: the methods of the cell at flat index 0   *)
(* of a region are called with arguments of the caller's choice.            *)

\* permanence arguments passed by the caller
PermArgs == {0, Quarter, Half, PermScale}

CellStep(op, ss) ==
    /\ cycle < MaxCycles
    /\ Len(ss) <= MaxSegs
    /\ segs' = [segs EXCEPT ![0] = ss]
    /\ cycle' = cycle + 1
    /\ UNCHANGED <<cfg, activeCells, winnerCells, onlyCol0, last, seqVars, spVars, twinVars>>

\* cell.createSegment(maxNewSynapses, prevWinnerCells, initialPermanence)
CellCreateSegment(maxNewSynapses, prevWinnerCells, initialPermanence) ==
    \E ss \in CreateSegment(segs[0], maxNewSynapses, prevWinnerCells, initialPermanence) :
        /\ CellStep("createSegment", ss)
        /\ call' = [op |-> "createSegment", cells |-> SeqToSet(prevWinnerCells),
                    perm |-> initialPermanence, maxNew |-> maxNewSynapses]
        /\ UNCHANGED <<aseg, mseg>>

\* cell.activateSegments(activeCells)
CellActivateSegments(active) ==
    LET r == ActivateSegments(segs[0], aseg[0], mseg[0], active)
    IN  /\ CellStep("activateSegments", segs[0])
        /\ aseg' = [aseg EXCEPT ![0] = r.a]
        /\ mseg' = [mseg EXCEPT ![0] = r.m]
        /\ call' = [op |-> "activateSegments", cells |-> active, perm |-> 0]

\* cell.punishMatchingSegments(prevActiveCells, permanenceDec)
CellPunishMatchingSegments(prevActiveCells, permanenceDec) ==
    /\ CellStep("punishMatchingSegments",
                PunishMatchingSegments(segs[0], mseg[0], prevActiveCells, permanenceDec))
    /\ call' = [op |-> "punishMatchingSegments", cells |-> prevActiveCells,
                perm |-> permanenceDec]
    /\ UNCHANGED <<aseg, mseg>>

\* cell.adaptSegment(segment, previousCells, maxNewSynapses,
\* initialPermanence, permanenceInc, permanenceDec) on an existing segment
CellAdaptSegment(segment, previousCells, maxNewSynapses, initialPermanence, permanenceInc, permanenceDec) ==
    \E ss \in AdaptSegment(segs[0], segment, previousCells, maxNewSynapses,
                            initialPermanence, permanenceInc, permanenceDec) :
        /\ CellStep("adaptSegment", ss)
        /\ call' = [op |-> "adaptSegment", segment |-> segment,
                    cells |-> previousCells, maxNew |-> maxNewSynapses,
                    perm |-> initialPermanence, inc |-> permanenceInc,
                    dec |-> permanenceDec]
        /\ UNCHANGED <<aseg, mseg>>

\* cell.adaptActiveSegments(prevActiveCells, maxNewSynapses, prevWinnerCells,
\* initialPermanence, permanenceInc, permanenceDec); err tells whether the
\* call raised
CellAdaptActiveSegments(prevActiveCells, maxNewSynapses, prevWinnerCells, initialPermanence, permanenceInc, permanenceDec) ==
    LET r == AdaptActiveSegments(segs[0], aseg[0], prevActiveCells, maxNewSynapses,
                                 prevWinnerCells, initialPermanence, permanenceInc,
                                 permanenceDec)
    IN  /\ CellStep("adaptActiveSegments", r.segs)
        /\ call' = [op |-> "adaptActiveSegments", cells |-> prevActiveCells,
                    winners |-> SeqToSet(prevWinnerCells), maxNew |-> maxNewSynapses,
                    perm |-> initialPermanence, inc |-> permanenceInc,
                    dec |-> permanenceDec, err |-> r.err]
        /\ UNCHANGED <<aseg, mseg>>

\* the regions whose cell is driven directly
CellConfigs == {c \in Configs : c.columnDim * c.cellsPerColumn <= 2}

CellInit ==
    TMInit /\ cfg \in CellConfigs /\ call = NoCall /\ NoSequence /\ NoPooler /\ NoTwin

CellNext ==
    \/ \E maxNew \in 1..2, pw \in SUBSET Cells, init \in PermArgs \ {0} :
           CellCreateSegment(maxNew, SortedSeq(pw), init)
    \/ \E active \in SUBSET Cells : CellActivateSegments(active)
    \/ \E prev \in SUBSET Cells, dec \in PermArgs :
           CellPunishMatchingSegments(prev, dec)

\* One BasicTMCell driven by direct method calls
SpecCell == CellInit /\ [][CellNext]_vars

-----------------------------------------------------------------------------
(* The learning methods of a BasicTMCell driven directly: segments are      *)
(* created and activated, then adapted.                                     *)

\* the regions: two one-cell columns, and a square region
AdaptConfigs == {c \in Configs : c.columnDim = 2 /\ c.maxNewSynapses = 2}

\* the cell lists a caller passes: cells among the first two of the region
CellArgs == {{}, {0}, {0, 1}}

\* the (permanenceInc, permanenceDec) pairs a caller passes: fractional
\* values, and 1.0
IncDecArgs == {<<Quarter, Quarter>>, <<PermScale, Half>>}

AdaptInit ==
    TMInit /\ cfg \in AdaptConfigs /\ call = NoCall /\ NoSequence /\ NoPooler /\ NoTwin

AdaptNext ==
    \/ \E maxNew \in 1..2, pw \in CellArgs \ {{}} :
           CellCreateSegment(maxNew, SortedSeq(pw), Half)
    \/ \E active \in CellArgs : CellActivateSegments(active)
    \/ \E segment \in 1..Len(segs[0]), prev \in CellArgs, maxNew \in 1..2,
          id \in IncDecArgs :
           CellAdaptSegment(segment, prev, maxNew, Half, id[1], id[2])
    \/ \E prev \in CellArgs, pw \in CellArgs, maxNew \in 1..2, id \in IncDecArgs :
           CellAdaptActiveSegments(prev, maxNew, SortedSeq(pw), Half, id[1], id[2])

\* One BasicTMCell whose segments are adapted by direct method calls
SpecAdapt == AdaptInit /\ [][AdaptNext]_vars

-----------------------------------------------------------------------------
(* A TemporalMemory layer fed the cyclic sequence A, B, C, A, B, C, ...     *)
(* with learn=True.                                                         *)

\* Repetitions of the sequence A, B, C that are presented.
MaxReps == 20

\* the layers the sequence is presented to
SeqConfigs == {c \in Configs : c.columnDim >= 2}
                 \cup {TMConfig(3, 3, 2, Half, Half, Quarter, Quarter)}

\* A column is bursting iff it is active and holds no predicted-active cell.
BurstingBySpec(cols, pa) == {col \in cols : ~HasPredictedActive(col, pa)}

SeqInit ==
    /\ TMInit
    /\ cfg \in SeqConfigs
    /\ call = NoCall
    /\ seqABC \in {t \in [1..3 -> (SUBSET Columns) \ {{}}] :
                       t[1] # t[2] /\ t[2] # t[3] /\ t[1] # t[3]}
    /\ quiet = 0
    /\ converged = FALSE
    /\ NoPooler /\ NoTwin

\* the next compute(activeColumns, learn=True) of the cyclic presentation;
\* the presentation ends with the first call that raises
SeqCompute ==
    /\ cycle < 3 * MaxReps
    /\ last.outcome \in {"none", "ok"}
    /\ LET cols == seqABC[(cycle % 3) + 1]
       IN  \E r \in ComputeResults(Self, cols, TRUE) :
               /\ Commit(cols, TRUE, r)
               /\ quiet' = IF r.outcome = "ok" /\ BurstingBySpec(cols, r.predActive) = {}
                           THEN Min(quiet + 1, 3) ELSE 0
               /\ converged' = (converged \/ quiet' = 3)
               /\ UNCHANGED <<call, seqABC, spVars, twinVars>>

SeqNext == SeqCompute

\* TemporalMemory under the cyclic presentation A, B, C, A, B, C, ...
SpecSeq == SeqInit /\ [][SeqNext]_vars

-----------------------------------------------------------------------------
(* Two TemporalMemory layers built one after the other with the same        *)
(* arguments and the same seed, and fed the same inputs: the first layer    *)
(* (held in the layer variables) takes a compute call, then the second      *)
(* (held in twin) takes the same call.  Both __init__ calls run             *)
(* np.random.seed(seed) on the generator of the numpy module, and every     *)
(* np.random.shuffle of either layer draws from that one generator.         *)

\* Length of the generator's output that is followed.
MaxDraws == 4

\* the layers built twice
TwinConfigs == {c \in Configs : c.columnDim >= 2}

\* x with the entries at positions i and j exchanged
Swap(x, i, j) == [x EXCEPT ![i] = x[j], ![j] = x[i]]

RECURSIVE Shuffle(_, _, _, _)
\* np.random.shuffle(x): for i = n-1 down to 1, j = a draw from 0..i and
\* x[i], x[j] are exchanged (positions are 1-based here).  stream[p] is the
\* p-th output of the generator since it was seeded.
Shuffle(x, i, stream, p) ==
    IF i < 1 THEN x
    ELSE LET j == stream[p] % (i + 1)
         IN  Shuffle(Swap(x, i + 1, j + 1), i - 1, stream, p + 1)

\* the cells on which a compute call that left `r` appended a segment, in
\* the order of the calls of createSegment
NewSegmentCells(tm, r) ==
    SortedSeq({c \in Cells : Len(r.segs[c]) > Len(tm.segs[c])})

\* the generator outputs the call consumed: each createSegment shuffles the
\* list of the previous winner cells
DrawsOf(tm, r) == Len(NewSegmentCells(tm, r)) * (Len(tm.winnerCells) - 1)

\* createSegment, lines 126-133: the segments the call appended hold the
\* first newSynapsesCount cells of the list as the generator shuffled it
DrawnByGenerator(tm, r, stream, pos) ==
    LET created == NewSegmentCells(tm, r)
        n == Len(tm.winnerCells)
        newSynapsesCount == Min(cfg.maxNewSynapses, n)
    IN  \A k \in 1..Len(created) :
            LET c == created[k]
                eligibleSynapses == Shuffle(tm.winnerCells, n - 1, stream,
                                            pos + (k - 1) * (n - 1))
            IN  r.segs[c][Len(r.segs[c])]
                    = NewSegment(SeqToSet(SubSeq(eligibleSynapses, 1, newSynapsesCount)),
                                 cfg.initialPermanence)

\* the second layer as a record of its fields
TwinLayer ==
    [segs |-> twin.segs, aseg |-> twin.aseg, mseg |-> twin.mseg,
     activeCells |-> twin.activeCells, winnerCells |-> twin.winnerCells]

TwinInit ==
    /\ TMInit
    /\ cfg \in TwinConfigs
    /\ twin = [segs |-> segs, aseg |-> aseg, mseg |-> mseg,
               activeCells |-> {}, winnerCells |-> <<>>,
               predicted |-> {}, outcome |-> "none", n |-> 0]
    /\ rng \in {[pos |-> 0, stream |-> st] : st \in [0..(MaxDraws - 1) -> {0, 1}]}
    /\ call = NoCall /\ NoSequence /\ NoPooler

\* first.compute(activeColumns, learn)
ComputeFirst(cols, learn) ==
    /\ twin.n = cycle
    /\ cycle < MaxCycles
    /\ \E r \in ComputeResults(Self, cols, learn) :
           /\ rng.pos + DrawsOf(Self, r) <= MaxDraws
           /\ DrawnByGenerator(Self, r, rng.stream, rng.pos)
           /\ Commit(cols, learn, r)
           /\ rng' = [rng EXCEPT !.pos = @ + DrawsOf(Self, r)]
    /\ UNCHANGED <<twin, call, seqVars, spVars>>

\* second.compute(activeColumns, learn), with the arguments the first layer
\* was just given
ComputeSecond ==
    /\ twin.n < cycle
    /\ \E r \in ComputeResults(TwinLayer, last.cols, last.learn) :
           /\ rng.pos + DrawsOf(TwinLayer, r) <= MaxDraws
           /\ DrawnByGenerator(TwinLayer, r, rng.stream, rng.pos)
           /\ \A c \in Cells : Len(r.segs[c]) <= MaxSegs
           /\ twin' = [segs |-> r.segs, aseg |-> r.aseg, mseg |-> r.mseg,
                       activeCells |-> r.activeCells, winnerCells |-> r.winnerCells,
                       predicted |-> r.predicted, outcome |-> r.outcome,
                       n |-> twin.n + 1]
           /\ rng' = [rng EXCEPT !.pos = @ + DrawsOf(TwinLayer, r)]
    /\ UNCHANGED <<tmVars, call, seqVars, spVars>>

TwinNext ==
    \/ \E cols \in SUBSET Columns, learn \in BOOLEAN : ComputeFirst(cols, learn)
    \/ ComputeSecond

\* Two layers with the same seed fed the same inputs alternately
SpecTwin == TwinInit /\ [][TwinNext]_vars

-----------------------------------------------------------------------------
(* SpatialPooler *)

\* Number of SpatialPooler.compute calls explored after construction.
MaxSPCalls == 2

\* The constructor arguments of one pooler; pot_pct is given in percent.
SPConfig(inDim, colDim, w, potPct, minPerm, inc, dec) ==
    [inputDim |-> inDim, columnDim |-> colDim, numActiveCols |-> w,
     pot_pct |-> potPct, minPermanence |-> minPerm,
     activeInc |-> inc, inactiveDec |-> dec]

ThreeQuarters == PermScale - Quarter

\* The poolers explored.
SPConfigs ==
    { SPConfig(1, 3, 2, 100, ThreeQuarters, Quarter, Quarter),
      SPConfig(2, 2, 1, 100, ThreeQuarters, Quarter, Half),
      SPConfig(2, 2, 2, 50, ThreeQuarters, Half, Quarter) }

SPColumns == 0..(spCfg.columnDim - 1)
SPBits == 0..(spCfg.inputDim - 1)

\* __init__, line 34: int(pot_pct * inputDim + 0.5)
NumPotentials == (spCfg.pot_pct * spCfg.inputDim + 50) \div 100

\* __init__, lines 39-41: values np.random.normal(minPermanence,
\* 0.25*minPermanence) can give on the grid: below the mean, the mean, and
\* above 1.0 (the draw is not clipped).
NormalSamples ==
    {spCfg.minPermanence - Quarter, spCfg.minPermanence, PermScale + Quarter}

\* __init__, lines 37-38: the mask of a column whose drawn bits are `bits`
\* (np.random.randint draws with replacement)
PotentialRow(bits) ==
    [b \in SPBits |-> IF \E k \in 1..Len(bits) : bits[k] = b THEN 1 ELSE 0]

\* __init__, lines 39-41: the permanence row; of two draws of the same bit
\* the later value is the one stored
PermanenceRow(bits, vals) ==
    [b \in SPBits |->
        IF \E k \in 1..Len(bits) : bits[k] = b
        THEN LET k == CHOOSE j \in 1..Len(bits) :
                          bits[j] = b /\ \A i \in (j+1)..Len(bits) : bits[i] # b
             IN  vals[k]
        ELSE 0]

\* SpatialPooler.__init__
SPInit ==
    /\ spCfg \in SPConfigs
    /\ \E bits \in [SPColumns -> [1..NumPotentials -> SPBits]],
          vals \in [SPColumns -> [1..NumPotentials -> NormalSamples]] :
          /\ potentials = [i \in SPColumns |-> PotentialRow(bits[i])]
          /\ permanences = [i \in SPColumns |-> PermanenceRow(bits[i], vals[i])]
    /\ spLast = [op |-> "init"]
    /\ spCalls = 0

RECURSIVE SumOver(_, _)
\* np.sum over the bits in B of the row f
SumOver(f, B) ==
    IF B = {} THEN 0
    ELSE LET b == CHOOSE x \in B : TRUE IN f[b] + SumOver(f, B \ {b})

\* compute, line 62: overlapScores, the sum of the input entries at the
\* connected bits (their number when the input is a 0/1 vector)
OverlapScores(input) ==
    [i \in SPColumns |->
        SumOver(input, {b \in SPBits : permanences[i][b] >= spCfg.minPermanence})]

\* compute, line 63: np.argsort(overlapScores), ascending; the default sort
\* kind is not stable, so columns of equal overlap can come in any order
ArgSortOutcomes(scores) ==
    {p \in [1..spCfg.columnDim -> SPColumns] :
        /\ \A i, j \in 1..spCfg.columnDim : i # j => p[i] # p[j]
        /\ \A i, j \in 1..spCfg.columnDim : i < j => scores[p[i]] <= scores[p[j]]}

\* Mutant: slicing one element too many
SelectActiveOneMore(order, w) == SubSeq(order, 1, Min(w + 1, Len(order)))

\* compute, line 63: [:self._w]
SelectActive(order, w) == SubSeq(order, 1, Min(w, Len(order)))

\* Mutant: line 67 without the multiplication by the potential mask
SPLearnRowNoMask(i, input) ==
    [b \in SPBits |->
        Clip(permanences[i][b]
             + (input[b] * (spCfg.activeInc + spCfg.inactiveDec) - spCfg.inactiveDec))]

\* Mutant: line 66 with the increment and the decrement exchanged
SPLearnRowSwapped(i, input) ==
    [b \in SPBits |->
        Clip(permanences[i][b]
             + potentials[i][b]
               * (input[b] * (spCfg.activeInc + spCfg.inactiveDec) - spCfg.activeInc))]

\* compute, lines 66-68: the learned permanence row of a selected column
SPLearnRow(i, input) ==
    [b \in SPBits |->
        Clip(permanences[i][b]
             + potentials[i][b]
               * (input[b] * (spCfg.activeInc + spCfg.inactiveDec) - spCfg.inactiveDec))]

\* Mutant: lines 67-68 indexing every row instead of the rows in activeCols
SPLearnAllRows(active, input) == [i \in SPColumns |-> SPLearnRow(i, input)]

\* compute, lines 67-68: the matrix after learning, only the rows in
\* activeCols are assigned
SPLearn(active, input) ==
    [i \in SPColumns |->
        IF i \in SeqToSet(active) THEN SPLearnRow(i, input) ELSE permanences[i]]

\* compute, lines 70-75: the value returned
SPReturn(active, asarray) ==
    IF asarray
    THEN [i \in SPColumns |-> IF i \in SeqToSet(active) THEN 1 ELSE 0]
    ELSE active

\* The arguments a caller can pass as encodedInput: a 1-D numpy array of
\* the right size (a 0/1 vector, or all entries 2), one of a size one off,
\* or a Python list.
\* vec maps the positions 0 .. size-1 to the entries.
SPInputs ==
    {[isArray |-> TRUE, vec |-> v] : v \in [SPBits -> {0, 1}] \cup [SPBits -> {2}]}
    \cup {[isArray |-> TRUE, vec |-> v] :
              v \in [0..(spCfg.inputDim - 2) -> {1}] \cup [0..spCfg.inputDim -> {1}]}
    \cup {[isArray |-> FALSE, vec |-> v] : v \in [SPBits -> {1}]}

\* compute, lines 55-59: the exception the validation raises, "none" if it
\* lets the input through
SPValidation(in) ==
    IF ~in.isArray THEN "TypeError"
    ELSE IF Cardinality(DOMAIN in.vec) # spCfg.inputDim THEN "ValueError"
    ELSE "none"

\* SpatialPooler.compute(encodedInput, learn, asarray) raising at lines 55-59
SPComputeRaises(in, learn, asarray) ==
    /\ spCalls < MaxSPCalls
    /\ SPValidation(in) # "none"
    /\ spCalls' = spCalls + 1
    /\ spLast' = [op |-> "rejected", error |-> SPValidation(in),
                  isArray |-> in.isArray, size |-> Cardinality(DOMAIN in.vec)]
    /\ UNCHANGED <<spCfg, permanences, potentials, tmVars, call, seqVars, twinVars>>

\* SpatialPooler.compute(encodedInput, learn, asarray) on an input that the
\* validation lets through
SPCompute(in, learn, asarray) ==
    /\ spCalls < MaxSPCalls
    /\ SPValidation(in) = "none"
    /\ LET input == in.vec
           scores == OverlapScores(input)
       IN  \E order \in ArgSortOutcomes(scores) :
               LET active == SelectActive(order, spCfg.numActiveCols)
               IN  /\ spCalls' = spCalls + 1
                   /\ permanences' = IF learn THEN SPLearn(active, input) ELSE permanences
                   /\ spLast' = [op |-> "compute", input |-> input, learn |-> learn,
                                 asarray |-> asarray, overlap |-> scores,
                                 active |-> active, ret |-> SPReturn(active, asarray)]
                   /\ UNCHANGED <<spCfg, potentials, tmVars, call, seqVars, twinVars>>

\* no TemporalMemory layer takes part
NoLayer == TMInit /\ cfg = TMConfig(1, 1, 1, Half, Half, Quarter, Quarter)

SPInitAll == SPInit /\ NoLayer /\ call = NoCall /\ NoSequence /\ NoTwin

SPNext ==
    \E in \in SPInputs, learn \in BOOLEAN, asarray \in BOOLEAN :
        \/ SPCompute(in, learn, asarray)
        \/ SPComputeRaises(in, learn, asarray)

\* A SpatialPooler driven by compute calls
SpecSP == SPInitAll /\ [][SPNext]_vars

-----------------------------------------------------------------------------
(* Claims about the SpatialPooler, checked under SpecSP *)

\* C2: every entry of the permanence matrix is in [0,1] in every reachable
\* state: right after construction and before and after every compute call,
\* for every column, selected or not.
C2_SPPermanenceInUnitInterval ==
    \A i \in SPColumns : \A b \in SPBits :
        permanences[i][b] >= 0 /\ permanences[i][b] <= PermScale

\* C3: with numActiveCols = w <= columnDim, compute returns exactly w
\* pairwise distinct column indices of [0, columnDim); with asarray=True a
\* vector of length columnDim holding exactly w ones.
C3_ExactlyWActiveColumns ==
    (spLast.op = "compute" /\ spCfg.numActiveCols <= spCfg.columnDim) =>
        /\ Len(spLast.active) = spCfg.numActiveCols
        /\ \A k \in 1..Len(spLast.active) : spLast.active[k] \in SPColumns
        /\ \A j, k \in 1..Len(spLast.active) :
               j # k => spLast.active[j] # spLast.active[k]
        /\ IF spLast.asarray
           THEN /\ DOMAIN spLast.ret = SPColumns
                /\ Cardinality({i \in SPColumns : spLast.ret[i] = 1})
                       = spCfg.numActiveCols
                /\ \A i \in SPColumns : spLast.ret[i] \in {0, 1}
           ELSE spLast.ret = spLast.active

\* A compute with asarray=True returned with fewer active columns than the
\* pooler has, on an input with an ON bit.
C3_Witness ==
    /\ spLast.op = "compute" /\ spLast.asarray
    /\ spCfg.numActiveCols < spCfg.columnDim
    /\ \E b \in SPBits : spLast.input[b] = 1
    /\ \E i \in SPColumns : spLast.ret[i] = 1

\* C4: selection is monotone in overlap: if the overlap of column A strictly
\* exceeds that of column B and B is returned active, then A is returned
\* active too.
C4_OverlapMonotoneSelection ==
    spLast.op = "compute" =>
        \A A, B \in SPColumns :
            (spLast.overlap[A] > spLast.overlap[B] /\ B \in SeqToSet(spLast.active))
                => A \in SeqToSet(spLast.active)

\* every permanence entry outside its column's potential mask is 0
OutsideMaskZero ==
    \A i \in SPColumns : \A b \in SPBits :
        potentials[i][b] = 0 => permanences[i][b] = 0

\* C12: no compute call changes the potential mask, and every permanence
\* entry outside a column's potential mask is 0 in every reachable state.
C12_MaskFixedOutsideZero ==
    [](OutsideMaskZero) /\ [][potentials' = potentials]_vars

\* A learning compute selected a column that has an ON input bit outside
\* its potential mask.
C12_Witness ==
    /\ spLast.op = "compute" /\ spLast.learn
    /\ \E i \in SeqToSet(spLast.active) : \E b \in SPBits :
           potentials[i][b] = 0 /\ spLast.input[b] = 1

\* v is a 0/1 vector of length inputDim
ZeroOneVector(v) == DOMAIN v = SPBits /\ \A b \in SPBits : v[b] \in {0, 1}

\* C14: compute rejects with an error every input that is not a 0/1 vector
\* of length inputDim (so a call that gets past the validation was given
\* one), and a rejected call leaves the permanence matrix and the potential
\* mask unchanged.
C14_RejectsInvalidInput ==
    [][/\ spLast'.op = "compute" => ZeroOneVector(spLast'.input)
       /\ spLast'.op = "rejected" =>
              permanences' = permanences /\ potentials' = potentials]_vars

-----------------------------------------------------------------------------
(* Claims about the TemporalMemory layer, checked under Spec *)

\* C1: after every compute call (any activeColumns, learn or not), every
\* permanence entry of every segment of every cell lies in [0,1].
C1_PermanenceInUnitInterval ==
    \A c \in Cells : \A s \in 1..Len(segs[c]) : \A t \in Cells :
        segs[c][s][t] >= 0 /\ segs[c][s][t] <= PermScale

\* A learning call has pushed a synapse created below 1.0 up to the clip at 1.0.
C1_Witness ==
    /\ last.outcome = "ok" /\ last.learn
    /\ cfg.initialPermanence < PermScale /\ cfg.initialPermanence > 0
    /\ \E c \in Cells : \E s \in 1..Len(segs[c]) : \E t \in Cells :
           segs[c][s][t] = PermScale

\* C5: in every compute cycle that returns, the predicted-active cells (the
\* cells predictive at the start of the cycle that lie in an active column)
\* are all among the returned activeCells.
C5_PredictedActiveSubset ==
    last.outcome = "ok" =>
        {c \in last.prevPredictive : ColOf(c) \in last.cols} \subseteq activeCells

\* A cycle returned in which some cell was predicted-active.
C5_Witness ==
    /\ last.outcome = "ok"
    /\ {c \in last.prevPredictive : ColOf(c) \in last.cols} # {}

\* The layer of the concrete scenario: columnDim = 1, cellsPerColumn = 4.
OneColumnOfFour == cfg.columnDim = 1 /\ cfg.cellsPerColumn = 4

\* C8: on a fresh layer with columnDim = 1 and cellsPerColumn = 4, the first
\* compute([0], learn=True) makes all four cells active, selects cell 0 as
\* the winner and creates a new segment on it.
C8_FirstCycleBurstsAndCreates ==
    (OneColumnOfFour /\ cycle = 1 /\ onlyCol0) =>
        /\ last.outcome = "ok"
        /\ activeCells = {0, 1, 2, 3}
        /\ winnerCells = <<0>>
        /\ Len(segs[0]) = 1

\* C9: on that layer, across the first two compute([0], learn=True) cycles
\* the winner's segment count rises by exactly 1 in total and no other cell
\* of the column gains a segment.
C9_TwoCyclesOneSegment ==
    (OneColumnOfFour /\ onlyCol0) =>
        /\ cycle \in 1..2 => last.outcome = "ok"
        /\ cycle = 2 => /\ Len(segs[0]) = 1
                        /\ \A c \in Cells \ {0} : Len(segs[c]) = 0

\* C10: in every reachable state every cell holds at most
\* maxSegmentsPerCell segments.
C10_SegmentCap ==
    \A c \in Cells : GetNumberOfSegments(segs[c]) <= cfg.maxSegmentsPerCell

\* C11: in every reachable state every segment of every cell holds at most
\* maxSynapsesPerSegment synapses (entries with a permanence above 0),
\* whatever maxNewSynapses is and whatever compute calls were made.
C11_SynapseCap ==
    \A c \in Cells : \A s \in 1..Len(segs[c]) :
        Cardinality({t \in Cells : segs[c][s][t] > 0}) <= cfg.maxSynapsesPerSegment

\* C13: compute is total on valid input: for every layer shape, every
\* activeColumns within [0, columnDim) and every reachable state, the call
\* returns (activeCells, predictedCells) and raises nothing.
C13_ComputeTotal == last.outcome \in {"none", "ok"}

\* C17: after each compute(activeColumns) the active cells are exactly: in
\* an active column that held a predictive cell at the start of the cycle,
\* those predictive cells; in an active column without one (a bursting
\* column), all its cells; and no cell of a column that is not active.
C17_ActiveCellsExact ==
    last.outcome = "ok" =>
        activeCells =
            {c \in Cells :
                /\ ColOf(c) \in last.cols
                /\ \/ c \in last.prevPredictive
                   \/ CellsOf(ColOf(c)) \cap last.prevPredictive = {}}

\* the number of places of the list w that hold a cell of column col
WinnersIn(w, col) == Cardinality({k \in 1..Len(w) : ColOf(w[k]) = col})

\* C18: after each compute, winnerCells consists of every predicted-active
\* cell plus exactly one cell of each bursting column: no cell appears
\* twice, every winner is an active cell, and a column that is not bursting
\* contributes no winner beyond its predicted-active cells.
C18_WinnerCellsExact ==
    last.outcome = "ok" =>
        /\ \A j, k \in 1..Len(winnerCells) : j # k => winnerCells[j] # winnerCells[k]
        /\ SeqToSet(winnerCells) \subseteq activeCells
        /\ last.predActive \subseteq SeqToSet(winnerCells)
        /\ \A col \in Columns :
               IF col \in BurstingBySpec(last.cols, last.predActive)
               THEN WinnersIn(winnerCells, col) = 1
               ELSE {c \in SeqToSet(winnerCells) : ColOf(c) = col}
                       = {c \in last.predActive : ColOf(c) = col}

\* per cell of column col (1-based position in the column), the highest
\* count over its segments of potential synapses onto the cells of act
BestPotentials(col, act) ==
    [j \in 1..cfg.cellsPerColumn |->
        MaxOf(GetActivePotentials(segs[FlatIndex(col, j - 1)], act))]

\* C19: for a bursting column in which some cell has a segment with a
\* positive active-potential count, the winner is the cell whose best
\* segment has the highest count (ties to the lowest cell index); with
\* learn=True adaptSegment works on that cell's best-matching segment (the
\* first one attaining the maximum) and no other segment of the column
\* changes.
C19_BestMatchWinner ==
    [][last'.outcome = "ok" =>
          \A col \in BurstingBySpec(last'.cols, last'.predActive) :
              LET best == BestPotentials(col, activeCells')
                  w == FlatIndex(col, ArgMax(best) - 1)
                  segment == ArgMax(GetActivePotentials(segs[w], activeCells'))
              IN  MaxOf(best) > 0 =>
                      /\ WinnersIn(winnerCells', col) = 1
                      /\ \E k \in 1..Len(winnerCells') : winnerCells'[k] = w
                      /\ \A c \in CellsOf(col) :
                             /\ Len(segs'[c]) = Len(segs[c])
                             /\ \A s \in 1..Len(segs[c]) :
                                    (c # w \/ s # segment) => segs'[c][s] = segs[c][s]]_vars

\* C20: for a bursting column in which no cell has a positive
\* active-potential count, the winner is the cell with the fewest segments
\* (ties to the lowest cell index); with learn=True createSegment toward
\* prevWinnerCells is invoked on it and on no other cell of the column.
C20_FewestSegmentsWinner ==
    [][last'.outcome = "ok" =>
          \A col \in BurstingBySpec(last'.cols, last'.predActive) :
              LET best == BestPotentials(col, activeCells')
                  segmentCounts ==
                      [j \in 1..cfg.cellsPerColumn |->
                          GetNumberOfSegments(segs[FlatIndex(col, j - 1)])]
                  w == FlatIndex(col, ArgMin(segmentCounts) - 1)
              IN  MaxOf(best) = 0 =>
                      /\ WinnersIn(winnerCells', col) = 1
                      /\ \E k \in 1..Len(winnerCells') : winnerCells'[k] = w
                      /\ \A c \in CellsOf(col) \ {w} : segs'[c] = segs[c]
                      /\ Len(segs'[w]) =
                             Len(segs[w]) + (IF last'.learn /\ winnerCells # <<>>
                                             THEN 1 ELSE 0)]_vars

-----------------------------------------------------------------------------
(* Claims about the construction of a layer, checked under SpecNew *)

\* C15: constructing a TemporalMemory with columnDim <= 0 or with
\* cellsPerColumn <= 0 is rejected with the ValueError naming the offending
\* dimension, and no layer is created.
C15_BadDimensionsRejected ==
    (call.op = "TemporalMemory"
        /\ (call.args.columnDim <= 0 \/ call.args.cellsPerColumn <= 0)) =>
        call.error = "ValueError" /\ cfg = NoConfig

-----------------------------------------------------------------------------
(* Claims about two layers with the same seed, checked under SpecTwin *)

\* C16: two TemporalMemory instances built with the same seed and
\* parameters and fed the same sequence of compute inputs return identical
\* (activeCells, predictedCells) and hold identical segments after every
\* step, however the calls on the two instances are interleaved.
C16_SameSeedSameReplay ==
    twin.n = cycle =>
        /\ twin.segs = segs
        /\ twin.activeCells = activeCells
        /\ twin.predicted = last.predicted
        /\ twin.outcome = last.outcome

-----------------------------------------------------------------------------
(* Claims about one BasicTMCell, checked under SpecCell *)

Floor0(x) == IF x < 0 THEN 0 ELSE x

\* C6: after punishMatchingSegments(prevActiveCells, permanenceDec) with
\* permanenceDec >= 0 no permanence of the cell is higher than before the
\* call; on a matching segment the entries whose target is in
\* prevActiveCells drop by permanenceDec, floored at 0.
C6_PunishNeverIncreases ==
    [][call'.op = "punishMatchingSegments" =>
          /\ Len(segs'[0]) = Len(segs[0])
          /\ \A s \in 1..Len(segs[0]) : \A t \in Cells :
                /\ segs'[0][s][t] <= segs[0][s][t]
                /\ (s \in mseg[0] /\ t \in call'.cells) =>
                       segs'[0][s][t] = Floor0(segs[0][s][t] - call'.perm)]_vars

\* A punishment with a positive decrement hit a synapse of a matching
\* segment and left it above zero.
C6_Witness ==
    /\ call.op = "punishMatchingSegments" /\ call.perm > 0
    /\ \E s \in mseg[0] : \E t \in call.cells :
           segs[0][s][t] > 0 /\ segs[0][s][t] < PermScale

\* the targets of the synapses (entries above 0) of a segment
Synapses(seg) == {t \in Cells : seg[t] > 0}

C31_PotentialPoolSize ==
    \A i \in SPColumns :
        Cardinality({b \in SPBits : potentials[i][b] = 1}) = NumPotentials

\* sorted in strictly ascending order
Ascending(q) == \A i, j \in 1..Len(q) : i < j => q[i] < q[j]

\* C32: compute with asarray=False returns the indices of the active
\* columns sorted in ascending index order.
C32_ReturnsSortedIndices ==
    spLast.op = "compute" /\ ~spLast.asarray => Ascending(spLast.ret)

\* a compute call of the pooler that got past the validation
SPComputed == spLast'.op = "compute" /\ spCalls' = spCalls + 1

\* C29: with learn=True, compute changes each selected column's permanence
\* inside its potential mask by +activeInc where the input bit is 1 and by
\* -inactiveDec where the input bit is 0, and clips the entry to [0,1].
C29_SPLearningRule ==
    [][SPComputed /\ spLast'.learn =>
          \A i \in SeqToSet(spLast'.active), b \in SPBits :
              potentials[i][b] = 1 /\ spLast'.input[b] \in {0, 1} =>
                  permanences'[i][b]
                      = Clip(permanences[i][b]
                             + (IF spLast'.input[b] = 1 THEN spCfg.activeInc
                                                       ELSE 0 - spCfg.inactiveDec))]_vars

\* a learning compute selected a column whose mask holds a bit that was 1
\* and a bit that was 0 in the input, both left strictly inside (0,1)
C29_Witness ==
    /\ spLast.op = "compute"
    /\ spLast.learn
    /\ \E i \in SeqToSet(spLast.active), b, d \in SPBits :
           /\ potentials[i][b] = 1 /\ spLast.input[b] = 1
           /\ potentials[i][d] = 1 /\ spLast.input[d] = 0
           /\ permanences[i][b] \in 1..(PermScale - 1)
           /\ permanences[i][d] \in 1..(PermScale - 1)

\* C30: compute leaves the permanence row of every column that was not
\* selected unchanged, and with learn=False (or when it rejects its input)
\* leaves the whole permanence matrix unchanged.
C30_SPFrame ==
    [][/\ SPComputed =>
             /\ \A i \in SPColumns \ SeqToSet(spLast'.active) :
                    permanences'[i] = permanences[i]
             /\ ~spLast'.learn => permanences' = permanences
       /\ spLast'.op = "rejected" => permanences' = permanences]_vars

\* a learning compute with an input bit set left out a column whose mask
\* holds that bit at a permanence learning would have changed, while it
\* changed a selected column
C30_Witness ==
    /\ spLast.op = "compute"
    /\ spLast.learn
    /\ SeqToSet(spLast.active) # {}
    /\ \E i \in SPColumns \ SeqToSet(spLast.active), b \in SPBits :
           /\ potentials[i][b] = 1
           /\ spLast.input[b] = 1
           /\ permanences[i][b] < PermScale

\* the cells owning a segment whose connected synapses onto `active` reach
\* the activation threshold
OwnsActiveSegment(active) ==
    {c \in Cells : \E s \in 1..Len(segs[c]) :
                      ConnectedOverlap(segs[c][s], active) >= cfg.activationThreshold}

\* C26: after a compute that returns, the returned predictedCells is exactly
\* the set of cells owning at least one segment whose connected synapses
\* (permanence >= minPermanence) onto the returned activeCells number at
\* least activationThreshold, on the segments as the cycle's learning left
\* them; the cells' predictive states are that set, and the next compute
\* takes its predictive states, hence its predicted-active cells, from it.
C26_PredictedCellsExact ==
    /\ [](last.outcome = "ok" =>
             /\ last.predicted = OwnsActiveSegment(activeCells)
             /\ PredictiveStates(Self) = last.predicted)
    /\ [][last.outcome = "ok" /\ cycle' = cycle + 1 =>
             /\ last'.prevPredictive = last.predicted
             /\ last'.predActive = {c \in last.predicted : ColOf(c) \in last'.cols}]_vars

\* a compute returned a prediction while some cell owns a segment that is
\* not active, and a later compute used the prediction
C26_Witness ==
    /\ last.outcome = "ok"
    /\ last.predicted # {}
    /\ last.prevPredictive # {}
    /\ \E c \in Cells : Len(segs[c]) > 0 /\ c \notin last.predicted

\* C27: a cell that owns no segments is never chosen as winner through the
\* best-match branch, and adaptSegment is never applied to a cell with zero
\* segments or to a segment index that the chosen cell does not have.
C27_BestMatchHasSegment ==
    \A k \in 1..Len(last.picks) :
        LET pick == last.picks[k]
        IN  /\ pick.branch = "best" => pick.nsegs > 0
            /\ pick.segment # 0 => pick.segment \in 1..pick.nsegs
            /\ pick.branch = "best" /\ last.learn => pick.segment # 0

\* a learning compute took the best-match branch in a column that also holds
\* a cell without segments
C27_Witness ==
    /\ last.learn
    /\ \E k \in 1..Len(last.picks) :
           /\ last.picks[k].branch = "best"
           /\ last.picks[k].segment >= 1
           /\ \E c \in Cells : /\ ColOf(c) = ColOf(last.picks[k].cell)
                                /\ Len(segs[c]) = 0

\* C28: compute with learn=False leaves every cell's number of segments and
\* every permanence unchanged; only activeCells, winnerCells and the active
\* and matching segment sets derived from them change.
C28_NoLearnKeepsSegments ==
    [][cycle' = cycle + 1 /\ ~last'.learn => segs' = segs /\ cfg' = cfg]_vars

\* a compute with learn=False returned with a bursting column, previous
\* winner cells to grow to and segments to adapt: with learn=True it would
\* have learned
C28_Witness ==
    /\ ~last.learn
    /\ last.outcome = "ok"
    /\ last.bursting # {}
    /\ last.prevWinners # <<>>
    /\ \E c \in Cells : Len(segs[c]) > 0

\* a compute call of the layer took place
Computed == cycle' = cycle + 1

\* the orders in which the columns of S can be visited
Orders(S) ==
    {q \in [1..Cardinality(S) -> S] : \A i, j \in 1..Cardinality(S) : i # j => q[i] # q[j]}

\* C33: within one compute, the resulting activeCells, the resulting set of
\* winnerCells and every cell's resulting number of segments are the same
\* for every order in which the bursting columns are processed: processing
\* one column never changes what the winner selection of another reads.
C33_BurstingOrderFree ==
    [][Computed /\ last'.outcome = "ok" =>
          /\ activeCells' = ActiveCellsOf(last'.predActive, last'.bursting)
          /\ \A order \in Orders(last'.bursting) :
                 \A fw \in FindWinnerCells(order, 1,
                                          [segs |-> segs,
                                           winners |-> SortedSeq(last'.predActive),
                                           picks |-> <<>>],
                                          activeCells', winnerCells, last'.learn) :
                     /\ SeqToSet(fw.winners) = SeqToSet(winnerCells')
                     /\ \A c \in Cells : Len(fw.segs[c]) = Len(segs'[c])]_vars

\* a learning compute processed two bursting columns or more and created a
\* segment in one of them
C33_Witness ==
    /\ last.outcome = "ok"
    /\ last.learn
    /\ Cardinality(last.bursting) >= 2
    /\ \E k \in 1..Len(last.picks) :
           Len(segs[last.picks[k].cell]) > last.picks[k].nsegs

\* the cells a learning compute may write to: the predicted-active cells,
\* the cells that were predictive in a column that is not active, and the
\* winners chosen in the bursting columns (the active columns without a
\* predicted-active cell)
MayLearn(l) ==
    l.predActive
    \cup {c \in l.prevPredictive : ColOf(c) \notin l.cols}
    \cup {c \in {l.picks[k].cell : k \in 1..Len(l.picks)} :
              ColOf(c) \in BurstingBySpec(l.cols, l.predActive)}

\* C34: a compute with learn=True alters the segments of a cell only if the
\* cell is (a) predicted-active, (b) a cell that was predictive in a column
\* not in activeColumns, or (c) the winner selected in a bursting column;
\* the segment list and the permanences of every other cell are the same
\* before and after the call.
C34_LearningFrame ==
    [][Computed /\ last'.learn =>
          \A c \in Cells \ MayLearn(last') : segs'[c] = segs[c]]_vars

\* the entries of the segments `new` of a cell that are synapses and were
\* not synapses in `old` (a segment that `old` lacks had no synapse)
CreatedTargets(old, new) ==
    {t \in Cells : \E s \in 1..Len(new) :
                      /\ new[s][t] > 0
                      /\ s <= Len(old) => old[s][t] = 0}

\* C35: over any sequence of compute calls every synapse is created toward
\* a winner of the previous cycle: whenever an entry of a segment goes from
\* 0 to a positive permanence during a cycle, its target was in winnerCells
\* at the end of the cycle before; in particular the first compute on a
\* fresh layer creates no segment and no synapse.
C35_SynapsesTowardPrevWinners ==
    [][Computed =>
          /\ \A c \in Cells : CreatedTargets(segs[c], segs'[c]) \subseteq SeqToSet(winnerCells)
          /\ cycle = 0 => segs' = segs]_vars

\* after a learning first compute that left winners and no segment, a
\* later compute created a synapse
C35_Witness ==
    /\ cycle >= 2
    /\ last.learn
    /\ last.prevWinners # <<>>
    /\ \E k \in 1..Len(last.picks) :
           LET c == last.picks[k].cell
           IN  /\ Len(segs[c]) > last.picks[k].nsegs
               /\ \E t \in SeqToSet(last.prevWinners) : segs[c][Len(segs[c])][t] > 0

-----------------------------------------------------------------------------
(* Claims about the learning methods of a cell, checked under SpecAdapt *)

\* the reinforcement rule: an existing synapse gains inc when its target is
\* in prev and loses dec otherwise, clipped to [0,1]
Reinforced(p, t, prev, inc, dec) == Clip(p + (IF t \in prev THEN inc ELSE 0 - dec))

\* the entries of a segment that a call turned from 0 into a synapse
Grown(old, new) == {t \in Cells : old[t] = 0 /\ new[t] > 0}

\* C22: adaptSegment(segment, previousCells, ...) changes each existing
\* synapse (permanence > 0) of the segment by +permanenceInc if its target
\* is in previousCells and by -permanenceDec otherwise, clipped to [0,1],
\* also for fractional increments; an entry of permanence 0 is not touched
\* by the reinforcement (it stays 0 unless the growth step makes it a new
\* synapse at initialPermanence).
C22_AdaptSegmentReinforces ==
    [][call'.op = "adaptSegment" =>
          LET old == segs[0][call'.segment]
              new == segs'[0][call'.segment]
          IN  \A t \in Cells :
                  IF old[t] > 0
                  THEN new[t] = Reinforced(old[t], t, call'.cells, call'.inc, call'.dec)
                  ELSE new[t] \in {0, call'.perm}]_vars

\* C23: after the reinforcement of adaptSegment, with activeSynapsesCount
\* the number of existing synapses whose target is in previousCells, if
\* maxNewSynapses - activeSynapsesCount > 0 then that many new synapses (or
\* as many as there are eligible targets) are created at initialPermanence,
\* each on a distinct cell of previousCells that had no synapse on the
\* segment; growth changes no other entry.
C23_AdaptSegmentGrows ==
    [][call'.op = "adaptSegment" =>
          LET old == segs[0][call'.segment]
              new == segs'[0][call'.segment]
              activeSynapsesCount == Cardinality(Synapses(old) \cap call'.cells)
              eligible == call'.cells \ Synapses(old)
          IN  /\ call'.maxNew - activeSynapsesCount > 0 =>
                     Cardinality(Grown(old, new))
                         = Min(call'.maxNew - activeSynapsesCount, Cardinality(eligible))
              /\ Grown(old, new) \subseteq eligible
              /\ \A t \in Grown(old, new) : new[t] = call'.perm]_vars

\* C24: adaptActiveSegments reinforces every active segment of the cell and
\* only those: on an active segment every existing synapse gains
\* permanenceInc if its target is in prevActiveCells and loses
\* permanenceDec otherwise (clipped to [0,1]); segments that are not active
\* are unchanged, and entries of permanence 0 are not touched by the
\* reinforcement.
C24_AdaptActiveReinforces ==
    [][call'.op = "adaptActiveSegments" =>
          /\ Len(segs'[0]) = Len(segs[0])
          /\ \A s \in 1..Len(segs[0]) :
                 IF s \in aseg[0]
                 THEN \A t \in Cells :
                          IF segs[0][s][t] > 0
                          THEN segs'[0][s][t] = Reinforced(segs[0][s][t], t, call'.cells,
                                                          call'.inc, call'.dec)
                          ELSE segs'[0][s][t] \in {0, call'.perm}
                 ELSE segs'[0][s] = segs[0][s]]_vars

\* C25: after adaptActiveSegments, each active segment that had fewer than
\* maxNewSynapses synapses onto prevWinnerCells has gained new synapses at
\* initialPermanence, each onto a distinct cell of prevWinnerCells that had
\* no synapse on the segment, up to maxNewSynapses minus the count it had
\* (or until the eligible targets run out); growth creates no entry for a
\* cell outside prevWinnerCells.
C25_AdaptActiveGrows ==
    [][call'.op = "adaptActiveSegments" =>
          \A s \in aseg[0] :
              LET old == segs[0][s]
                  new == segs'[0][s]
                  had == Cardinality(Synapses(old) \cap call'.winners)
                  eligible == call'.winners \ Synapses(old)
              IN  /\ had < call'.maxNew =>
                         Cardinality(Grown(old, new))
                             = Min(call'.maxNew - had, Cardinality(eligible))
                  /\ Grown(old, new) \subseteq eligible
                  /\ \A t \in Grown(old, new) : new[t] = call'.perm]_vars

-----------------------------------------------------------------------------
(* Claims about sequence learning, checked under SpecSeq *)

\* C7: presenting A, B, C cyclically with learn=True, within MaxReps
\* repetitions the layer reaches three consecutive transitions (A->B, B->C,
\* C->A) without a bursting column.
C7_SequenceConverges == cycle = 3 * MaxReps => converged

====
